---------------------------- MODULE Spec2Model ----------------------------
(***************************************************************************)
(* The circle_follow behavior of week2/custom_behavior_methods.py:         *)
(* beh_diff_circle_follow (the registered entry point) and CircleFollow    *)
(* (the control law).                                                      *)
(*                                                                         *)
(* The program computes with floats; the model computes with integers in   *)
(* fixed point:                                                            *)
(*   angles              in units of pi/Pi radians (15 degrees),           *)
(*   positions           in units of 1/PosScale m,                         *)
(*   linear velocities   in units of 1/VelScale m/s,                       *)
(*   angular velocities  in units of pi/Pi rad/s on input; the returned    *)
(*                       angular velocity is scaled by TanhScale on top,   *)
(*   cos, sin            scaled by TrigScale, tanh scaled by TanhScale.    *)
(* A returned command is <<linear_speed, angular_speed>>, the 2x1 array of *)
(* line 44.  Signed zeros, NaN and overflow of floats are not modelled.    *)
(***************************************************************************)
EXTENDS Integers, Sequences, FiniteSets, TLC

VARIABLES
    ego_object,        \* [state |-> <<x, y, theta>>, vel_range |-> <<min_vel, max_vel>>]
    external_objects,  \* the caller's second argument: None or a list
    kwargs,            \* the caller's keyword arguments: a record over a subset of {center, radius}
    call,              \* the last invocation of the behavior: its locals and its return value; <<>> before any
    memo,              \* an earlier invocation kept for comparison; <<>> when none is kept
    tick               \* parity of the number of invocations so far

vars == <<ego_object, external_objects, kwargs, call, memo, tick>>

---------------------------------------------------------------------------
(* Units *)

Pi == 12            \* np.pi in angle units
TrigScale == 1000   \* cos and sin values are integers / TrigScale
TanhScale == 100000 \* np.tanh values are integers / TanhScale
VelScale == 40      \* 1 m/s
PosScale == 2       \* 1 m

MinLinear == 4      \* the literal 0.1 (m/s) of line 39, = VelScale / 10
DefaultRadius == 4  \* the literal 2.0 (m) of line 18, = 2 * PosScale
DefaultCenter == <<5 * PosScale, 5 * PosScale>>   \* the literal [5.0, 5.0] of line 17

None == [py |-> "None"]       \* Python's None
List(items) == [list |-> items]   \* a Python list

---------------------------------------------------------------------------
(* Bounds of the model *)

MaxOff == 2      \* the robot is at most MaxOff position units from DefaultCenter on each axis
ThetaMax == 13   \* |theta| <= ThetaMax angle units (beyond pi, so that wrapping happens)
MaxV == 5        \* max linear velocity is 2*k velocity units, k in 0..MaxV  (0 .. 0.25 m/s)
MaxW == 2        \* max angular velocity in 0..MaxW
MaxScale == 3    \* a robot position is moved along its ray from the center by factors 1..MaxScale
VecRange == 48   \* the vectors to the center have |dx|, |dy| <= VecRange

---------------------------------------------------------------------------
(* Arithmetic helpers *)

Abs(n) == IF n < 0 THEN -n ELSE n
Max(a, b) == IF a > b THEN a ELSE b   \* Python's max(a, b): b only when b > a
Sign(n) == IF n > 0 THEN 1 ELSE IF n < 0 THEN -1 ELSE 0
RoundDiv(n, d) == Sign(n) * ((2 * Abs(n) + d) \div (2 * d))   \* n/d rounded to nearest, d > 0

(* cos(k * pi/Pi) * TrigScale, k = 0..2*Pi-1 *)
CosTab ==
    << 1000,  966,  866,  707,  500,  259,    0, -259, -500, -707, -866, -966,
      -1000, -966, -866, -707, -500, -259,    0,  259,  500,  707,  866,  966 >>
Cos(a) == CosTab[(a % (2 * Pi)) + 1]
Sin(a) == Cos(a - Pi \div 2)

(* tanh(2 * k * pi/Pi) * TanhScale, k = 0..Pi *)
TanhTab ==
    << 0, 48047, 78071, 91715, 97012, 98941, 99627, 99869, 99954, 99984,
       99994, 99998, 99999 >>

---------------------------------------------------------------------------
(* Library functions the code calls *)

(* np.arctan2(dy, dx), rounded to the nearest angle unit: the angle in     *)
(* (-pi, pi] whose unit vector has the largest dot product with (dx, dy);  *)
(* the smaller angle on a tie; 0 for the zero vector, as numpy returns.    *)
Atan2Of(dy, dx) ==
    IF dx = 0 /\ dy = 0 THEN 0
    ELSE LET dot == [a \in (1 - Pi)..Pi |-> dx * Cos(a) + dy * Sin(a)]
         IN  CHOOSE a \in (1 - Pi)..Pi :
                 \A b \in (1 - Pi)..Pi : dot[a] > dot[b] \/ (dot[a] = dot[b] /\ a <= b)

(* Atan2Of tabulated once for the vectors with |dx|, |dy| <= VecRange.     *)
Atan2Tab == [dy \in -VecRange..VecRange |-> [dx \in -VecRange..VecRange |-> Atan2Of(dy, dx)]]
Atan2(dy, dx) == Atan2Tab[dy][dx]

(* irsim.util.util.WrapToPi: subtract 2*pi while above pi, then add 2*pi   *)
(* while below -pi.  The result is in [-pi, pi], both ends included.       *)
RECURSIVE WrapToPi(_)
WrapToPi(rad) ==
    IF rad > Pi THEN WrapToPi(rad - 2 * Pi)
    ELSE IF rad < -Pi THEN WrapToPi(rad + 2 * Pi)
    ELSE rad

(* np.tanh(2 * d) * TanhScale for an angle d in angle units; odd in d.     *)
Tanh2(d) ==
    IF Abs(d) > Pi THEN Sign(d) * TanhTab[Pi + 1]
    ELSE Sign(d) * TanhTab[Abs(d) + 1]

(* np.linalg.norm(v) squared *)
NormSq(v) == v[1] * v[1] + v[2] * v[2]

(* kwargs.get(key, default) *)
KwGet(kw, key, default) == IF key \in DOMAIN kw THEN kw[key] ELSE default

(* ego_object.get_vel_range(): (min_vel, max_vel); Python's [1] is the second *)
get_vel_range(ego) == ego.vel_range

---------------------------------------------------------------------------
(* CircleFollow, lines 23-44 *)

vec_to_center(state, center) == <<center[1] - state[1], center[2] - state[2]>>

angle_to_center(state, center) ==
    LET v == vec_to_center(state, center) IN Atan2(v[2], v[1])

tangential_angle(state, center) == angle_to_center(state, center) + Pi \div 2

angle_diff(state, center) == WrapToPi(tangential_angle(state, center) - state[3])

(* Variants of linear_speed: without the factor 0.5; without the minimum.  *)
linear_speed_full(max_vel) == Max(MinLinear, max_vel[1])
linear_speed_nofloor(max_vel) == (max_vel[1] * 5) \div 10

(* max(0.1, max_vel[0, 0] * 0.5); max_vel[1] is even, so the half is exact *)
linear_speed(max_vel) == Max(MinLinear, (max_vel[1] * 5) \div 10)

(* Variants of angular_speed: proportional to 2 * angle_diff (in radians)  *)
(* without tanh; with the difference taken the other way round.            *)
angular_speed_linear(max_vel, d) == max_vel[2] * ((2 * d * 3142 * TanhScale) \div (Pi * 1000))
angular_speed_reversed(max_vel, d) == max_vel[2] * Tanh2(-d)

(* max_vel[1, 0] * np.tanh(2 * angle_diff) *)
angular_speed(max_vel, d) == max_vel[2] * Tanh2(d)

(* A variant of CircleFollow that regulates the distance: the target       *)
(* heading is bent toward the circle by the sign of distance - radius.     *)
CircleFollowRadial(state, max_vel, center, radius) ==
    LET err == Sign(NormSq(vec_to_center(state, center)) - radius * radius)
        d == WrapToPi(tangential_angle(state, center) - err - state[3])
    IN  <<linear_speed(max_vel), angular_speed(max_vel, d)>>

(* distance (line 29) and radius are computed or received and never used.  *)
CircleFollow(state, max_vel, center, radius) ==
    <<linear_speed(max_vel), angular_speed(max_vel, angle_diff(state, center))>>

---------------------------------------------------------------------------
(* beh_diff_circle_follow, lines 6-20 *)

(* A variant of CENTER that ignores a supplied center *)
CENTER_default_only(kw) == DefaultCenter

CENTER(kw) == KwGet(kw, "center", DefaultCenter)
RADIUS(kw) == KwGet(kw, "radius", DefaultRadius)

(* The invocation: the values of its locals when it calls CircleFollow,    *)
(* and what it returns.                                                    *)
beh_diff_circle_follow(ego, ext, kw) ==
    LET ext_local == IF ext = None THEN List(<<>>) ELSE ext
        state == ego.state
        max_vel == get_vel_range(ego)[2]
    IN  [ state            |-> state,
          max_vel          |-> max_vel,
          center           |-> CENTER(kw),
          radius           |-> RADIUS(kw),
          external_objects |-> ext_local,
          ret              |-> CircleFollow(state, max_vel, CENTER(kw), RADIUS(kw)) ]

(* A variant of Behave that normalises the heading of the caller's state   *)
(* in place.                                                               *)
BehaveWrapsHeading ==
    /\ call' = beh_diff_circle_follow(ego_object, external_objects, kwargs)
    /\ tick' = 1 - tick
    /\ ego_object' = [ego_object EXCEPT !.state[3] = WrapToPi(@)]
    /\ UNCHANGED <<external_objects, kwargs, memo>>

(* The simulator invokes the behavior.  The function assigns only locals:  *)
(* state.flatten() copies, external_objects = [] rebinds the parameter.    *)
Behave ==
    /\ call' = beh_diff_circle_follow(ego_object, external_objects, kwargs)
    /\ tick' = 1 - tick
    /\ UNCHANGED <<ego_object, external_objects, kwargs, memo>>

---------------------------------------------------------------------------
(* Spec: the behavior applied to inputs drawn from bounded sets *)

Egos(poses, vels) ==
    { [state |-> p, vel_range |-> <<<<-v[1], -v[2]>>, v>>] : p \in poses, v \in vels }

Positions ==
    { <<DefaultCenter[1] + dx, DefaultCenter[2] + dy>> : dx \in -MaxOff..MaxOff, dy \in -MaxOff..MaxOff }
Poses == { <<p[1], p[2], th>> : p \in Positions, th \in -ThetaMax..ThetaMax }
VelRanges == { <<2 * k, w>> : k \in 0..MaxV, w \in 0..MaxW }
Centers == { DefaultCenter, <<DefaultCenter[1] - 1, DefaultCenter[2] + 2>> }
Radii == { DefaultRadius, DefaultRadius + 2 }

Init ==
    /\ ego_object \in Egos(Poses, VelRanges)
    /\ external_objects = None
    /\ kwargs \in [center : Centers, radius : Radii]
    /\ call = <<>>
    /\ memo = <<>>
    /\ tick = 0

Next == Behave

Spec == Init /\ [][Next]_vars

---------------------------------------------------------------------------
(* Properties of the control law, checked under Spec *)

Called == call # <<>>

(* The heading error the last invocation computed, and its unwrapped value *)
CallDiff == angle_diff(call.state, call.center)
CallRawDiff == tangential_angle(call.state, call.center) - call.state[3]
CallAtCenter == vec_to_center(call.state, call.center) = <<0, 0>>

(* C1: the magnitude of the returned angular velocity never exceeds w_max  *)
(* (the return is scaled by TanhScale).                                    *)
C1_AngularSaturated ==
    Called => Abs(call.ret[2]) <= call.max_vel[2] * TanhScale

(* C1's case: w_max > 0 and a heading error of a right angle or more, the  *)
(* command within 1% of w_max.                                             *)
C1_Witness ==
    /\ Called
    /\ call.max_vel[2] > 0
    /\ Abs(CallDiff) >= Pi \div 2
    /\ Abs(call.ret[2]) * 100 >= 99 * call.max_vel[2] * TanhScale

(* C2 as stated: the linear speed is one half of v_max for every v_max and pose. *)
C2_HalfOfVmax ==
    Called => 2 * call.ret[1] = call.max_vel[1]

(* C2 amended: the linear speed is max(0.1, v_max / 2): one half of v_max  *)
(* when v_max >= 0.2 and 0.1 when v_max < 0.2; it is decided by v_max      *)
(* alone, whatever the pose.                                               *)
C2_HalfWithFloor ==
    Called =>
        /\ call.max_vel[1] >= 2 * MinLinear => 2 * call.ret[1] = call.max_vel[1]
        /\ call.max_vel[1] < 2 * MinLinear => call.ret[1] = MinLinear

(* C2's case: v_max above 0.2, robot off the center, one half returned.    *)
C2_Witness ==
    /\ Called
    /\ call.max_vel[1] > 2 * MinLinear
    /\ ~CallAtCenter
    /\ 2 * call.ret[1] = call.max_vel[1]

(* C3: with d = (tangent heading - theta) wrapped to [-pi, pi] and         *)
(* w_max > 0, the angular command is zero exactly when d = 0, positive     *)
(* when d > 0 and negative when d < 0.                                     *)
C3_SteersTowardTangent ==
    (Called /\ call.max_vel[2] > 0) =>
        /\ CallDiff \in -Pi..Pi
        /\ (CallDiff - CallRawDiff) % (2 * Pi) = 0
        /\ (call.ret[2] = 0) <=> (CallDiff = 0)
        /\ CallDiff > 0 => call.ret[2] > 0
        /\ CallDiff < 0 => call.ret[2] < 0

(* C3's case: the raw difference lies outside [-pi, pi], wraps to a        *)
(* negative d, and the command is negative.                                *)
C3_Witness ==
    /\ Called
    /\ call.max_vel[2] > 0
    /\ CallRawDiff > Pi
    /\ CallDiff < 0
    /\ call.ret[2] < 0

(* (robot position - center) x (heading vector), scaled by TrigScale *)
CallCross ==
    LET rx == call.state[1] - call.center[1]
        ry == call.state[2] - call.center[2]
    IN  rx * Sin(call.state[3]) - ry * Cos(call.state[3])

(* C7: a robot off the center whose heading is the target heading (angular *)
(* command zero, w_max > 0) moves counter-clockwise about the center: the  *)
(* cross product of (position - center) with the heading is positive.      *)
C7_CounterClockwise ==
    (Called /\ ~CallAtCenter /\ call.max_vel[2] > 0 /\ call.ret[2] = 0) => CallCross > 0

(* C8: the returned linear speed is at most v_max, for every v_max >= 0.   *)
C8_LinearWithinMax ==
    Called => call.ret[1] <= call.max_vel[1]

(* The pose moved along its ray from the center by the factor k *)
ScaledPose(state, center, k) ==
    << center[1] - k * (center[1] - state[1]),
       center[2] - k * (center[2] - state[2]),
       state[3] >>

C10_AtCenter ==
    /\ (vec_to_center(ego_object.state, CENTER(kwargs)) = <<0, 0>>) => ENABLED Behave
    /\ Called =>
        /\ Len(call.ret) = 2
        /\ call.ret[1] >= MinLinear
        /\ CallAtCenter =>
            /\ angle_to_center(call.state, call.center) = 0
            /\ tangential_angle(call.state, call.center) = Pi \div 2
            /\ call.ret[1] = Max(MinLinear, (call.max_vel[1] * 5) \div 10)
            /\ call.ret[1] > 0
            /\ call.ret[2] = call.max_vel[2] * Tanh2(WrapToPi(Pi \div 2 - call.state[3]))

(* C10's case: robot exactly at the center, v_max below 0.2, turning.      *)
C10_Witness ==
    /\ Called
    /\ CallAtCenter
    /\ call.max_vel[1] < 2 * MinLinear
    /\ call.ret[1] = MinLinear
    /\ call.max_vel[2] > 0
    /\ call.ret[2] # 0

---------------------------------------------------------------------------
(* ShimSpec: a simulator that invokes the behavior again and again, with   *)
(* the robot, the keyword arguments and the object list changing between   *)
(* invocations.                                                            *)

OtherCenter == <<DefaultCenter[1] - 2, DefaultCenter[2] - 1>>
OtherRadius == DefaultRadius + 2

ShimPoses ==
    { <<DefaultCenter[1], DefaultCenter[2], 0>>,
      <<DefaultCenter[1] + 2, DefaultCenter[2] - 1, 7>>,
      <<DefaultCenter[1] - 2, DefaultCenter[2] + 3, -13>> }
ShimVels == { <<MinLinear, 1>>, <<3 * MinLinear, 2>> }
ShimKwargs ==
    {<<>>} \cup [center : {OtherCenter}] \cup [radius : {OtherRadius}]
           \cup [center : {OtherCenter}, radius : {OtherRadius}]
ShimExternals == { None, List(<<>>), List(<<"obstacle">>) }

ShimInit ==
    /\ ego_object \in Egos(ShimPoses, ShimVels)
    /\ external_objects \in ShimExternals
    /\ kwargs \in ShimKwargs
    /\ call = <<>>
    /\ memo = <<>>
    /\ tick = 0

(* Between invocations the simulator moves or replaces the robot, ...      *)
SetEgo ==
    /\ ego_object' \in Egos(ShimPoses, ShimVels)
    /\ UNCHANGED <<external_objects, kwargs, call, memo, tick>>

(* ... passes other keyword arguments, ...                                 *)
SetKwargs ==
    /\ kwargs' \in ShimKwargs
    /\ UNCHANGED <<ego_object, external_objects, call, memo, tick>>

(* ... or another object list.                                             *)
SetExternal ==
    /\ external_objects' \in ShimExternals
    /\ UNCHANGED <<ego_object, kwargs, call, memo, tick>>

(* The observer keeps the last invocation for a later comparison.          *)
Remember ==
    /\ call # <<>>
    /\ memo = <<>>
    /\ memo' = call
    /\ UNCHANGED <<ego_object, external_objects, kwargs, call, tick>>

ShimNext == Behave \/ SetEgo \/ SetKwargs \/ SetExternal \/ Remember

ShimSpec == ShimInit /\ [][ShimNext]_vars

(* C5: an invocation uses center (5.0, 5.0) when kwargs has no "center"    *)
(* and the supplied one otherwise, radius 2.0 when kwargs has no "radius"  *)
(* and the supplied one otherwise, and the empty list for external_objects *)
(* None; with no keyword argument it returns CircleFollow(state, max_vel,  *)
(* (5.0, 5.0), 2.0); and the invocation is possible for every input.       *)
C5_Defaults ==
    /\ []ENABLED Behave
    /\ [][tick' # tick =>
            /\ call'.center = IF "center" \in DOMAIN kwargs THEN kwargs.center
                              ELSE <<5 * PosScale, 5 * PosScale>>
            /\ call'.radius = IF "radius" \in DOMAIN kwargs THEN kwargs.radius
                              ELSE 2 * PosScale
            /\ call'.external_objects = IF external_objects = None THEN List(<<>>)
                                        ELSE external_objects
            /\ Len(call'.ret) = 2
            /\ kwargs = <<>> =>
                   call'.ret = CircleFollow(ego_object.state, ego_object.vel_range[2],
                                            <<5 * PosScale, 5 * PosScale>>, 2 * PosScale)
       ]_vars

(* C5's case: an invocation with no optional argument at all, made after   *)
(* one that supplied its own center.                                       *)
C5_Witness ==
    /\ Called
    /\ kwargs = <<>>
    /\ external_objects = None
    /\ call.center = <<5 * PosScale, 5 * PosScale>>
    /\ call.radius = 2 * PosScale
    /\ call.external_objects = List(<<>>)
    /\ memo # <<>>
    /\ memo.center = OtherCenter

SameArguments(a, b) ==
    /\ a.state = b.state
    /\ a.max_vel = b.max_vel
    /\ a.center = b.center
    /\ a.radius = b.radius

---------------------------------------------------------------------------
(* SimSpec: the closed loop.  Each simulation step the robot invokes the   *)
(* behavior and its pose is advanced by the returned command               *)
(* (differential drive, explicit Euler, heading kept in [-pi, pi]).        *)

StepTime == 1   \* seconds per simulation step

DiffDriveStep(state, vel) ==
    << state[1] + RoundDiv(vel[1] * Cos(state[3]) * StepTime * PosScale, VelScale * TrigScale),
       state[2] + RoundDiv(vel[1] * Sin(state[3]) * StepTime * PosScale, VelScale * TrigScale),
       WrapToPi(state[3] + RoundDiv(vel[2] * StepTime, TanhScale)) >>

SimPoses ==
    { <<DefaultCenter[1] + dx, DefaultCenter[2] + dy, th>> :
          dx \in {-DefaultRadius, 0, DefaultRadius, 2 * DefaultRadius},
          dy \in {-DefaultRadius, 0, DefaultRadius},
          th \in {-Pi \div 2, 0, Pi \div 2, Pi} }

(* v_max = 1 m/s, w_max = pi/3 rad/s *)
SimVels == { <<VelScale, Pi \div 3>> }

SimInit ==
    /\ ego_object \in Egos(SimPoses, SimVels)
    /\ external_objects = None
    /\ kwargs \in {<<>>} \cup [radius : {OtherRadius}]
    /\ call = <<>>
    /\ memo = <<>>
    /\ tick = 0

SimStep ==
    LET c == beh_diff_circle_follow(ego_object, external_objects, kwargs)
    IN  /\ call' = c
        /\ tick' = 1 - tick
        /\ ego_object' = [ego_object EXCEPT !.state = DiffDriveStep(@, c.ret)]
        /\ UNCHANGED <<external_objects, kwargs, memo>>

SimNext == SimStep

(* The simulator steps for ever. *)
SimSpec == SimInit /\ [][SimNext]_vars /\ WF_vars(SimNext)

(* Half a metre *)
SimTol == PosScale \div 2

(* A squared distance d2 is within SimTol of the radius r *)
WithinTol(d2, r) ==
    IF d2 < (r - SimTol) * (r - SimTol) THEN FALSE ELSE d2 <= (r + SimTol) * (r + SimTol)

(* The robot's distance to CENTER is RADIUS, within SimTol *)
AtRadius ==
    \E state \in {ego_object.state}, kw \in {kwargs} :
        WithinTol(NormSq(vec_to_center(state, CENTER(kw))), RADIUS(kw))

(* C4: from any start pose the robot's distance to CENTER eventually       *)
(* reaches RADIUS (within the tolerance) and stays there.                  *)
C4_ReachesRadiusAndStays == <>[]AtRadius

====
